---- MODULE Spec2Model ----
(***************************************************************************)
(* Digest scheduler of reactflux-ai (backend services/scheduler.js and the *)
(* /schedule routes of routes/digest.js).                                  *)
(*                                                                         *)
(* State: the scheduled_tasks table, the process-wide activeJobs map of    *)
(* live CronJob triggers, the executeTask invocations that are suspended   *)
(* at an await, the digests table (as a row count), the wall clock and the *)
(* last operation with its result.                                         *)
(***************************************************************************)
EXTENDS Integers, Sequences, FiniteSets, TLC

VARIABLES tasks, lastId, activeJobs, runs, digests, now, lastOp

\* routes/digest.js and digest-service.js: the generationJobs map, the calls
\* of DigestService.generate, the digests table with its AUTOINCREMENT
\* counter, the wall clock in units of thirty minutes and the last request
VARIABLES generationJobs, calls, digestTable, lastDigestId, clock, lastReq

\* ai-service.js: the call of proxyChatRequest in progress and what it has
\* written to its controller
VARIABLES proxy, sink

\* push-service.js: the call of sendPushNotification in progress
VARIABLES pushCall

\* push-service.js: the preparation of the chunks of a push (the splitText
\* loop)
VARIABLES splitCall

\* digest-service.js: a call of truncateByToken
VARIABLES truncCall

\* digest-service.js and ai-service.js: the provider stream of one
\* callAIForDigest as it is read, forwarded and reassembled
VARIABLES streamCall

\* the client (useDigest.js and its store): the generation state, the digest
\* list and the polls of one generation job
VARIABLES client

schedVars == <<tasks, lastId, activeJobs, runs, digests, now, lastOp>>
digestVars == <<generationJobs, calls, digestTable, lastDigestId, clock, lastReq>>
proxyVars == <<proxy, sink>>
pushVars == <<pushCall>>
splitVars == <<splitCall>>
truncVars == <<truncCall>>
streamVars == <<streamCall>>
clientVars == <<client>>

vars == <<schedVars, digestVars, proxyVars, pushVars, splitVars, truncVars, streamVars,
          clientVars>>

\* what the operations of one service leave alone
notSchedVars == <<digestVars, proxyVars, pushVars, splitVars, truncVars, streamVars, clientVars>>
notDigestVars == <<schedVars, proxyVars, pushVars, splitVars, truncVars, streamVars, clientVars>>
notProxyVars == <<schedVars, digestVars, pushVars, splitVars, truncVars, streamVars, clientVars>>
notPushVars == <<schedVars, digestVars, proxyVars, splitVars, truncVars, streamVars, clientVars>>
notSplitVars == <<schedVars, digestVars, proxyVars, pushVars, truncVars, streamVars, clientVars>>
notTruncVars == <<schedVars, digestVars, proxyVars, pushVars, splitVars, streamVars, clientVars>>
notStreamVars == <<schedVars, digestVars, proxyVars, pushVars, splitVars, truncVars, clientVars>>
notClientVars == <<schedVars, digestVars, proxyVars, pushVars, splitVars, truncVars, streamVars>>

-----------------------------------------------------------------------------
(* Bounds of the model *)

MaxInFlight == 2
MaxTime == 1
MaxDigests == 2
MaxCalls == 2
MaxClock == 2
MaxRows == 2
MaxItems == 4
MaxChunks == 4
MaxBreaks == 8
MaxRuns == 3
MaxDeltas == 2
MaxPolls == 3

-----------------------------------------------------------------------------
(* Values *)

\* the ids of the task rows followed. Every statement of scheduler.js is keyed
\* by one task id and rows share no state, so one row (created, edited,
\* deleted; ids are AUTOINCREMENT and never reused) is followed.
TaskIds == {1}

\* SQL NULL / JS null in a numeric column (ids, timestamps)
Null == -1
\* SQL NULL in a text column
NullText == "NULL"
\* the JS value undefined, as the cron library receives it
Undefined == "undefined"

\* cron expressions a client can send: "m1" has an occurrence at every clock
\* value (the clock counts cron periods), "bad" does not parse
ValidCron == {"m1"}
CronInputs == ValidCron \cup {"bad"}

\* new CronJob(expr, ...) throws unless expr is a parseable cron string
\* (undefined included: CronTime parses its source as a string)
CronParses(expr) == expr \in ValidCron

\* CronJob.nextDate(): the first occurrence strictly after t
NextDate(expr, t) == t + 1

\* Map keys are compared by SameValueZero: the number 1 (a row's id) and the
\* string "1" (an id taken from the URL) are different keys, while SQLite's
\* integer affinity makes WHERE id = ? match both.
NumKey(n) == [t |-> "number", v |-> n]
StrKey(n) == [t |-> "string", v |-> n]

\* obj.name of a JS object: undefined when the object has no such property
Prop(obj, name) == IF name \in DOMAIN obj THEN obj[name] ELSE Undefined

\* request bodies of POST /schedule (the fields other than cronExpression and
\* isActive)
TaskData ==
  { [scope |-> "all", scopeId |-> Null, hours |-> 24, targetLang |-> "English",
     unreadOnly |-> TRUE, pushEnabled |-> FALSE, pushConfig |-> NullText],
    [scope |-> "feed", scopeId |-> 7, hours |-> 0, targetLang |-> "English",
     unreadOnly |-> FALSE, pushEnabled |-> TRUE, pushConfig |-> "cfg"],
    [scope |-> "group", scopeId |-> 3, hours |-> 12, targetLang |-> "Japanese",
     unreadOnly |-> TRUE, pushEnabled |-> TRUE, pushConfig |-> NullText] }

\* what the ai_config / miniflux_config tables hold when a run reads them
Configs == {"ok", "noAI", "noMiniflux"}

\* how DigestService.generate ends
GenOutcomes == {"digest", "placeholder", "sourceError", "providerError", "timeout"}

\* the last operation: its name, the task id it was given, whether it
\* succeeded, its message (error.message, or how the run ended) and the cron
\* expression it was given (for a run: the one of the row it was started with)
Op(op, id, ok, err, arg) == [op |-> op, id |-> id, ok |-> ok, err |-> err, arg |-> arg]

-----------------------------------------------------------------------------
(* scheduler.js *)

\* getNextRunTime(cronExpression, timezone) at clock t
getNextRunTime(cronExpression, t) ==
  IF CronParses(cronExpression) THEN NextDate(cronExpression, t) ELSE Null

\* SELECT * FROM scheduled_tasks WHERE id = ?
HasRow(T, id) == id \in DOMAIN T

\* removeTask(taskId) on the map J
removeTask(taskId, J) ==
  IF taskId \in DOMAIN J
    THEN [k \in DOMAIN J \ {taskId} |-> J[k]]
    ELSE J

\* the destructuring at the head of addTask
addTaskCronExpression(taskConfig) == Prop(taskConfig, "cronExpression")

\* addTask(taskConfig) on table T and map J at clock t
addTask(taskConfig, T, J, t) ==
  LET id == taskConfig.id
      cronExpression == addTaskCronExpression(taskConfig)
      J1 == IF NumKey(id) \in DOMAIN J THEN removeTask(NumKey(id), J) ELSE J
  IN  IF CronParses(cronExpression)
        THEN LET nextRun == getNextRunTime(cronExpression, t)
             IN  [jobs |-> [k \in DOMAIN J1 \cup {NumKey(id)} |->
                              IF k = NumKey(id) THEN cronExpression ELSE J1[k]],
                  tasks |-> IF nextRun # Null /\ HasRow(T, id)
                              THEN [T EXCEPT ![id].next_run_at = nextRun]
                              ELSE T,
                  success |-> TRUE]
        ELSE [jobs |-> J1, tasks |-> T, success |-> FALSE]

\* the row createTask inserts
NewRow(id, d, cronExpression, isActive, nextRun) ==
  [id |-> id,
   scope |-> d.scope,
   scope_id |-> IF d.scopeId = Null \/ d.scopeId = 0 THEN Null ELSE d.scopeId,
   hours |-> d.hours,
   target_lang |-> d.targetLang,
   unread_only |-> IF d.unreadOnly THEN 1 ELSE 0,
   push_enabled |-> IF d.pushEnabled THEN 1 ELSE 0,
   push_config |-> d.pushConfig,
   cron_expression |-> cronExpression,
   is_active |-> IF isActive THEN 1 ELSE 0,
   last_run_at |-> Null,
   next_run_at |-> nextRun,
   last_error |-> NullText]

\* createTask without its validation: no expression is rejected
invalidCronIgnored(nextRun) == FALSE

\* if (!nextRun) of createTask: the cron expression is rejected
invalidCron(nextRun) == nextRun = Null

\* createTask(taskData), reached through POST /schedule
createTask(d, cronExpression, isActive) ==
  LET nextRun == getNextRunTime(cronExpression, now)
      taskId == lastId + 1
  IN  /\ lastId + 1 \in TaskIds
      /\ IF invalidCron(nextRun)
           THEN /\ lastOp' = Op("createTask", 0, FALSE, "Invalid cron expression", cronExpression)
                /\ UNCHANGED <<tasks, lastId, activeJobs>>
           ELSE LET T1 == [i \in DOMAIN tasks \cup {taskId} |->
                             IF i = taskId
                               THEN NewRow(taskId, d, cronExpression, isActive, nextRun)
                               ELSE tasks[i]]
                    added == addTask(T1[taskId], T1, activeJobs, now)
                IN  /\ lastId' = taskId
                    /\ tasks' = IF isActive THEN added.tasks ELSE T1
                    /\ activeJobs' = IF isActive THEN added.jobs ELSE activeJobs
                    /\ lastOp' = Op("createTask", taskId, TRUE, "", cronExpression)
      /\ UNCHANGED <<runs, digests, now>>

CreateTask ==
  /\ \E d \in TaskData, c \in CronInputs, a \in BOOLEAN : createTask(d, c, a)
  /\ UNCHANGED notSchedVars

\* the columns updateTask sets from the properties present in the body
applyUpdates(row, u) ==
  [row EXCEPT
     !.scope = IF "scope" \in DOMAIN u THEN u.scope ELSE @,
     !.scope_id = IF "scopeId" \in DOMAIN u THEN u.scopeId ELSE @,
     !.hours = IF "hours" \in DOMAIN u THEN u.hours ELSE @,
     !.target_lang = IF "targetLang" \in DOMAIN u THEN u.targetLang ELSE @,
     !.unread_only = IF "unreadOnly" \in DOMAIN u
                       THEN (IF u.unreadOnly THEN 1 ELSE 0) ELSE @,
     !.push_enabled = IF "pushEnabled" \in DOMAIN u
                        THEN (IF u.pushEnabled THEN 1 ELSE 0) ELSE @,
     !.push_config = IF "pushConfig" \in DOMAIN u THEN u.pushConfig ELSE @,
     !.cron_expression = IF "cronExpression" \in DOMAIN u
                           THEN u.cronExpression ELSE @,
     !.is_active = IF "isActive" \in DOMAIN u
                     THEN (IF u.isActive THEN 1 ELSE 0) ELSE @]

UpdatableFields ==
  {"scope", "scopeId", "hours", "targetLang", "unreadOnly", "pushEnabled",
   "pushConfig", "cronExpression", "isActive"}

\* updateTask(taskId, updates), reached through PUT /schedule/:id with the
\* id of the URL (a string) and the request body
updateTask(n, updates) ==
  /\ IF DOMAIN updates \cap UpdatableFields = {}
       THEN /\ lastOp' = Op("updateTask", n, FALSE, "No updates provided", "")
            /\ UNCHANGED <<tasks, activeJobs>>
       ELSE LET T1 == IF HasRow(tasks, n)
                        THEN [tasks EXCEPT ![n] = applyUpdates(@, updates)]
                        ELSE tasks
                added == addTask(T1[n], T1, activeJobs, now)
            IN  /\ IF HasRow(T1, n) /\ T1[n].is_active = 1
                     THEN /\ tasks' = added.tasks
                          /\ activeJobs' = added.jobs
                     ELSE /\ tasks' = T1
                          /\ activeJobs' = removeTask(StrKey(n), activeJobs)
                /\ lastOp' = Op("updateTask", n, TRUE, "", Prop(updates, "cronExpression"))
  /\ UNCHANGED <<lastId, runs, digests, now>>

UpdateTask ==
  /\ \E n \in TaskIds :
       \/ \E c \in CronInputs : updateTask(n, [cronExpression |-> c])
       \/ \E a \in BOOLEAN : updateTask(n, [isActive |-> a])
       \/ updateTask(n, [x \in {} |-> x])
  /\ UNCHANGED notSchedVars

\* deleteTask that also drops the runs of the task that are in flight
deleteTaskCancels(n) ==
  /\ activeJobs' = removeTask(StrKey(n), activeJobs)
  /\ tasks' = [i \in DOMAIN tasks \ {n} |-> tasks[i]]
  /\ runs' = SelectSeq(runs, LAMBDA r : r.task.id # n)
  /\ lastOp' = Op("deleteTask", n, HasRow(tasks, n), "", "")
  /\ UNCHANGED <<lastId, digests, now>>

\* deleteTask(taskId), reached through DELETE /schedule/:id
deleteTask(n) ==
  /\ activeJobs' = removeTask(StrKey(n), activeJobs)
  /\ tasks' = [i \in DOMAIN tasks \ {n} |-> tasks[i]]
  /\ lastOp' = Op("deleteTask", n, HasRow(tasks, n), "", "")
  /\ UNCHANGED <<lastId, runs, digests, now>>

DeleteTask == (\E n \in TaskIds : deleteTask(n)) /\ UNCHANGED notSchedVars

\* enableTask(taskId), reached through POST /schedule/:id/enable
enableTask(n) ==
  LET T1 == IF HasRow(tasks, n) THEN [tasks EXCEPT ![n].is_active = 1] ELSE tasks
      added == addTask(T1[n], T1, activeJobs, now)
  IN  /\ IF HasRow(T1, n)
           THEN /\ tasks' = added.tasks
                /\ activeJobs' = added.jobs
           ELSE UNCHANGED <<tasks, activeJobs>>
      /\ lastOp' = Op("enableTask", n, TRUE, "", "")
      /\ UNCHANGED <<lastId, runs, digests, now>>

EnableTask == (\E n \in TaskIds : enableTask(n)) /\ UNCHANGED notSchedVars

\* disableTask without its UPDATE
disableRowKeeps(T, n) == T

\* the UPDATE ... SET is_active = 0 of disableTask
disableRow(T, n) ==
  IF HasRow(T, n) THEN [T EXCEPT ![n].is_active = 0] ELSE T

\* disableTask(taskId), reached through POST /schedule/:id/disable
disableTask(n) ==
  /\ activeJobs' = removeTask(StrKey(n), activeJobs)
  /\ tasks' = disableRow(tasks, n)
  /\ lastOp' = Op("disableTask", n, TRUE, "", "")
  /\ UNCHANGED <<lastId, runs, digests, now>>

DisableTask == (\E n \in TaskIds : disableTask(n)) /\ UNCHANGED notSchedVars

-----------------------------------------------------------------------------
(* executeTask *)

\* the options executeTask builds from the task row it was given
executeOptions(task) ==
  [scope |-> IF task.scope = "" THEN "all" ELSE task.scope,
   feedId |-> IF task.scope = "feed" THEN task.scope_id ELSE Null,
   groupId |-> IF task.scope = "group" THEN task.scope_id ELSE Null,
   hours |-> IF task.hours = 0 \/ task.hours = Null THEN 24 ELSE task.hours,
   targetLang |-> IF task.target_lang = "" \/ task.target_lang = NullText
                    THEN "Simplified Chinese" ELSE task.target_lang,
   unreadOnly |-> (task.unread_only = 1)]

\* updateRunning.run(task.id)
updateRunning(T, id, t) ==
  IF HasRow(T, id)
    THEN [T EXCEPT ![id].last_run_at = t, ![id].last_error = NullText]
    ELSE T

\* an updateError that leaves the column empty
updateErrorClears(T, id, message) ==
  IF HasRow(T, id) THEN [T EXCEPT ![id].last_error = NullText] ELSE T

\* updateError.run(error.message, task.id)
updateError(T, id, message) ==
  IF HasRow(T, id) THEN [T EXCEPT ![id].last_error = message] ELSE T

\* updateNext without its next_run_at column: a finished run clears last_error and leaves
\* next_run_at as it is
updateNextKeep(T, task, t) ==
  IF HasRow(T, task.id) THEN [T EXCEPT ![task.id].last_error = NullText] ELSE T

\* updateNext.run(nextRun, task.id)
updateNext(T, task, t) ==
  IF HasRow(T, task.id)
    THEN [T EXCEPT ![task.id].next_run_at = getNextRunTime(task.cron_expression, t),
                   ![task.id].last_error = NullText]
    ELSE T

\* error.message of the configuration checks, "" when both configs are there
ConfigError(cfg) ==
  IF cfg = "noAI" THEN "AI not configured"
  ELSE IF cfg = "noMiniflux" THEN "Miniflux not configured"
  ELSE ""

\* error.message of a generate that throws
GenerateError(outcome) ==
  IF outcome = "sourceError" THEN "Miniflux API error"
  ELSE IF outcome = "providerError" THEN "AI API error"
  ELSE "AI request timeout"

\* the columns of its task argument that executeTask reads after its first
\* await
taskCapture(task) ==
  [id |-> task.id, cron_expression |-> task.cron_expression,
   push_enabled |-> task.push_enabled, push_config |-> task.push_config]

\* executeTask(task) up to its first await: table T, suspended runs R
executeStart(task, T, R, t, cfg, origin) ==
  LET T1 == updateRunning(T, task.id, t)
  IN  IF ConfigError(cfg) # ""
        THEN [tasks |-> updateError(T1, task.id, ConfigError(cfg)),
              runs |-> R,
              op |-> Op("runEnd", task.id, FALSE, ConfigError(cfg), task.cron_expression)]
        ELSE [tasks |-> T1,
              runs |-> Append(R, [task |-> taskCapture(task), pc |-> "generating",
                                  origin |-> origin,
                                  options |-> executeOptions(task)]),
              op |-> Op("runStart", task.id, TRUE, "", task.cron_expression)]

\* runTaskNow with a lock per task: a run of a task that has a run in flight
\* is refused
runTaskNowExclusive(n, cfg) ==
  /\ Len(runs) < MaxInFlight
  /\ IF ~HasRow(tasks, n) \/ \E i \in 1..Len(runs) : runs[i].task.id = n
       THEN /\ lastOp' = Op("runTaskNow", n, FALSE, "Task not found", "")
            /\ UNCHANGED <<tasks, runs>>
       ELSE LET s == executeStart(tasks[n], tasks, runs, now, cfg, "manual")
            IN  /\ tasks' = s.tasks
                /\ runs' = s.runs
                /\ lastOp' = s.op
  /\ UNCHANGED <<lastId, activeJobs, digests, now>>

\* runTaskNow(taskId), reached through POST /schedule/:id/run
runTaskNow(n, cfg) ==
  /\ Len(runs) < MaxInFlight
  /\ IF ~HasRow(tasks, n)
       THEN /\ lastOp' = Op("runTaskNow", n, FALSE, "Task not found", "")
            /\ UNCHANGED <<tasks, runs>>
       ELSE LET s == executeStart(tasks[n], tasks, runs, now, cfg, "manual")
            IN  /\ tasks' = s.tasks
                /\ runs' = s.runs
                /\ lastOp' = s.op
  /\ UNCHANGED <<lastId, activeJobs, digests, now>>

RunTaskNow ==
  /\ \E n \in TaskIds, cfg \in Configs : runTaskNow(n, cfg)
  /\ UNCHANGED notSchedVars

RemoveAt(R, i) == SubSeq(R, 1, i - 1) \o SubSeq(R, i + 1, Len(R))

\* task.push_enabled === 1 && task.push_config
WantsPush(task) == task.push_enabled = 1 /\ task.push_config # NullText

\* the await of DigestService.generate settles for the i-th suspended run
GenerateSettles(i, outcome) ==
  LET r == runs[i]
      failed == outcome \notin {"digest", "placeholder"}
  IN  /\ r.pc = "generating"
      /\ outcome = "digest" => digests < MaxDigests
      /\ digests' = IF outcome = "digest" THEN digests + 1 ELSE digests
      /\ IF failed
           THEN /\ tasks' = updateError(tasks, r.task.id, GenerateError(outcome))
                /\ runs' = RemoveAt(runs, i)
                /\ lastOp' = Op("runEnd", r.task.id, FALSE, GenerateError(outcome),
                                r.task.cron_expression)
           ELSE IF WantsPush(r.task)
             THEN /\ runs' = [runs EXCEPT ![i].pc = "pushing"]
                  /\ lastOp' = Op("generated", r.task.id, TRUE, outcome, r.task.cron_expression)
                  /\ UNCHANGED tasks
             ELSE /\ tasks' = updateNext(tasks, r.task, now)
                  /\ runs' = RemoveAt(runs, i)
                  /\ lastOp' = Op("runEnd", r.task.id, TRUE, outcome, r.task.cron_expression)
      /\ UNCHANGED <<lastId, activeJobs, now>>

GenerateResolves ==
  /\ \E i \in 1..Len(runs), outcome \in GenOutcomes : GenerateSettles(i, outcome)
  /\ UNCHANGED notSchedVars

\* the await of PushService.send settles (resolved or thrown: both are
\* swallowed) for the i-th suspended run
PushSettles(i, pushed) ==
  LET r == runs[i]
  IN  /\ r.pc = "pushing"
      /\ tasks' = updateNext(tasks, r.task, now)
      /\ runs' = RemoveAt(runs, i)
      /\ lastOp' = Op("runEnd", r.task.id, TRUE,
                      IF pushed THEN "pushed" ELSE "push failed", r.task.cron_expression)
      /\ UNCHANGED <<lastId, activeJobs, digests, now>>

PushResolves ==
  /\ \E i \in 1..Len(runs), pushed \in BOOLEAN : PushSettles(i, pushed)
  /\ UNCHANGED notSchedVars

-----------------------------------------------------------------------------
(* the cron triggers *)

\* the cron library calls a live job's onTick at every occurrence of the
\* expression the job was built with
IsOccurrence(expr, t) == CronParses(expr) /\ NextDate(expr, t - 1) = t

\* whether onTick runs the row it has just read
onTickRuns(T, id) == HasRow(T, id) /\ T[id].is_active = 1

\* the onTick callback addTask gives the CronJob of task id
onTick(id, T, J, R, t, cfg) ==
  IF onTickRuns(T, id)
    THEN LET s == executeStart(T[id], T, R, t, cfg, "cron")
         IN  [tasks |-> s.tasks, jobs |-> J, runs |-> s.runs]
    ELSE [tasks |-> T, jobs |-> removeTask(NumKey(id), J), runs |-> R]

RECURSIVE fireDue(_, _, _, _, _, _)
\* the callbacks of the live jobs in keys that have an occurrence at t, in
\* key order
fireDue(keys, T, J, R, t, cfg) ==
  IF keys = {} THEN [tasks |-> T, jobs |-> J, runs |-> R]
  ELSE LET k == CHOOSE x \in keys : \A y \in keys : x.v <= y.v
           s == IF k \in DOMAIN J /\ IsOccurrence(J[k], t)
                  THEN onTick(k.v, T, J, R, t, cfg)
                  ELSE [tasks |-> T, jobs |-> J, runs |-> R]
       IN  fireDue(keys \ {k}, s.tasks, s.jobs, s.runs, t, cfg)

\* the clock reaches its next value and the cron library fires the jobs due
Tick ==
  /\ now < MaxTime
  /\ now' = now + 1
  /\ \E cfg \in Configs :
       LET s == fireDue(DOMAIN activeJobs, tasks, activeJobs, runs, now + 1, cfg)
       IN  /\ Len(s.runs) <= MaxInFlight
           /\ tasks' = s.tasks
           /\ activeJobs' = s.jobs
           /\ runs' = s.runs
  /\ lastOp' = Op("tick", 0, TRUE, "", "")
  /\ UNCHANGED <<lastId, digests>>
  /\ UNCHANGED notSchedVars

RECURSIVE initializeRows(_, _, _, _)
\* the loop of initialize() over the rows with is_active = 1
initializeRows(ids, T, J, t) ==
  IF ids = {} THEN [tasks |-> T, jobs |-> J]
  ELSE LET id == CHOOSE x \in ids : \A y \in ids : x <= y
           s == addTask(T[id], T, J, t)
       IN  initializeRows(ids \ {id}, s.tasks, s.jobs, t)

\* the process starts again on the stored tables: the in-memory map and the
\* suspended runs are gone, initialize() registers the active rows
Restart ==
  LET s == initializeRows({i \in DOMAIN tasks : tasks[i].is_active = 1},
                          tasks, [k \in {} |-> k], now)
  IN  /\ lastId > 0
      /\ tasks' = s.tasks
      /\ activeJobs' = s.jobs
      /\ runs' = <<>>
      /\ lastOp' = Op("initialize", 0, TRUE, "", "")
      /\ UNCHANGED <<lastId, digests, now>>
      /\ UNCHANGED notSchedVars

-----------------------------------------------------------------------------
(* digest-service.js: the digests table *)

\* the clock counts units of thirty minutes
JOB_TTL_MS == 1
\* the delay of the timer of callAIForDigest, in milliseconds
AI_TIMEOUT_MS == 600000

\* values of a text field of a request body or of a model's answer
Texts == {"", "text"}

\* the digest object generate returns; id is null for the placeholder
Digest(id, articleCount, content) ==
  [id |-> id, articleCount |-> articleCount, content |-> content]

NoDigest == Digest(Null, Null, NullText)

\* the row an INSERT INTO digests adds under the next AUTOINCREMENT id
insertDigest(T, id, content, articleCount) ==
  [i \in DOMAIN T \cup {id} |->
     IF i = id THEN [content |-> content, article_count |-> articleCount, is_read |-> 0]
     ELSE T[i]]

\* a saveDigest whose INSERT does not happen
saveDigestSkips(T, id, digestData) == T

\* saveDigest(digestData): the table after the INSERT
saveDigest(T, id, digestData) ==
  insertDigest(T, id, digestData.content,
               IF digestData.articleCount = Null THEN 0 ELSE digestData.articleCount)

-----------------------------------------------------------------------------
(* digest-service.js: generate *)

\* the AI config handed to generate: complete, or with apiKey null (an
\* ai_config row whose api_key_encrypted is NULL); "none": no active row
AIConfigs == {"ok", "noKey", "none"}
\* the Miniflux config: present or null
SourceConfigs == {"ok", "none"}
\* how the article source answers GET /v1/entries
FetchOutcomes == {"articles", "empty", "error"}
\* what proxyChatRequest has put in chunks when it resolves: text, nothing
\* but white space, or an error envelope
ProviderOutcomes == {"text", "blank", "error"}

\* what a generate call has come to: still running, returned, or thrown
Result(state, error, digest) == [state |-> state, error |-> error, digest |-> digest]

\* a generate call that throws error
fail(call, error) ==
  [call EXCEPT !.pc = "done", !.result = Result("error", error, NoDigest)]

\* a generate call that returns {success: true, digest}
succeed(call, digest) ==
  [call EXCEPT !.pc = "done", !.result = Result("ok", "", digest)]

\* generate(minifluxConfig, aiConfig, options), with a Miniflux config and
\* scope 'all', up to its first await: createMinifluxClient, then the
\* request of getRecentArticles
generateBegin(caller, ai, push) ==
  [caller |-> caller, ai |-> ai, push |-> push,
   pc |-> "fetching", bg |-> IF caller = "job" THEN "generate" ELSE "none",
   timer |-> Null, response |-> "none",
   sourceRequests |-> 1, providerRequests |-> 0, articles |-> Null,
   result |-> Result("pending", "", NoDigest)]

\* the config check at the head of callAIForDigest
aiConfigIncomplete(ai) == ai # "ok"

\* callAIForDigest up to await Promise.race: the config check, setTimeout,
\* the request of proxyChatRequest
callAIForDigestBegin(call) ==
  IF aiConfigIncomplete(call.ai)
    THEN fail(call, "AI not configured")
    ELSE [call EXCEPT !.pc = "awaitingAI",
                      !.timer = AI_TIMEOUT_MS,
                      !.response = "pending",
                      !.providerRequests = @ + 1]

\* a generate that takes an empty window for a failure
afterFetchEmptyFails(call, outcome) ==
  IF outcome = "error" THEN fail(call, "Miniflux API error")
  ELSE IF outcome = "empty" THEN fail([call EXCEPT !.articles = 0], "No articles")
  ELSE callAIForDigestBegin([call EXCEPT !.articles = 1])

\* generate from the answer of the article source to its next await;
\* articles is articles.length
afterFetch(call, outcome) ==
  IF outcome = "error" THEN fail(call, "Miniflux API error")
  ELSE IF outcome = "empty"
    THEN succeed([call EXCEPT !.articles = 0], Digest(Null, 0, "No articles"))
  ELSE callAIForDigestBegin([call EXCEPT !.articles = 1])

\* a finally that leaves the timer on
clearTimeoutKeeps(call) == call

\* clearTimeout(timeoutId) in the finally of callAIForDigest
clearTimeout(call) == [call EXCEPT !.timer = Null]

\* callAIForDigest after the race is won by the request: the text collected
\* from chunks, trimmed
afterProvider(call, outcome, id) ==
  IF outcome = "error" THEN clearTimeout(fail(call, "AI API error"))
  ELSE IF outcome = "blank" THEN clearTimeout(fail(call, "AI returned empty"))
  ELSE clearTimeout(succeed(call, Digest(id, call.articles, "text")))

-----------------------------------------------------------------------------
(* routes/digest.js: generation jobs *)

\* the job POST /generate puts in generationJobs
newJob(t) ==
  [status |-> "pending", progress |-> 0, digest |-> NoDigest, error |-> NullText,
   createdAt |-> t]

\* a purge that also drops the jobs whose age is the TTL
cleanupOldJobsEager(J, t) ==
  [j \in {k \in DOMAIN J : ~(t - J[k].createdAt >= JOB_TTL_MS)} |-> J[j]]

\* cleanupOldJobs() on the map J at time t
cleanupOldJobs(J, t) ==
  [j \in {k \in DOMAIN J : ~(t - J[k].createdAt > JOB_TTL_MS)} |-> J[j]]

\* the head of the background task: job.status = 'generating'
jobGenerating(job) == [job EXCEPT !.status = "generating", !.progress = 20]

\* the tail of the background task
jobCompleted(job, digest) ==
  [job EXCEPT !.status = "completed", !.progress = 100, !.digest = digest]

\* the background task without the return of its error branches
bgNextFallsThrough(call) ==
  IF call.caller # "job" \/ call.result.state = "pending" THEN call.bg
  ELSE IF call.push THEN "push" ELSE "done"

\* where the background task of a job is once its generate call is at call
bgNext(call) ==
  IF call.caller # "job" \/ call.result.state = "pending" THEN call.bg
  ELSE IF call.result.state = "error" THEN "done"
  ELSE IF call.push THEN "push" ELSE "done"

\* what the background task has written to its job once generate is at call
jobNext(job, call) ==
  IF call.result.state = "pending" THEN job
  ELSE IF call.result.state = "error"
    THEN [job EXCEPT !.status = "error", !.error = call.result.error]
  ELSE IF call.push THEN [job EXCEPT !.progress = 90]
  ELSE jobCompleted(job, call.result.digest)

\* the i-th generate call has moved to call: its caller goes on. A job that
\* was purged is an object nothing reads any more
Continue(i, call) ==
  /\ calls' = [calls EXCEPT ![i] = [call EXCEPT !.bg = bgNext(call)]]
  /\ generationJobs' =
       IF call.caller = "job" /\ i \in DOMAIN generationJobs
         THEN [generationJobs EXCEPT ![i] = jobNext(@, call)]
         ELSE generationJobs

\* GET /jobs/:jobId
getJob(J, jobId) ==
  IF jobId \in DOMAIN J
    THEN [success |-> TRUE, status |-> J[jobId].status, error |-> J[jobId].error]
    ELSE [success |-> FALSE, status |-> NullText, error |-> "Job not found"]

\* POST /generate with the configs the tables hold and pushConfig.url set or
\* not in the body
postGenerate(ai, src, push) ==
  IF ai \in {"none", "noKey"}
    THEN /\ lastReq' = Op("postGenerate", 0, FALSE, "AI not configured", "")
         /\ UNCHANGED <<generationJobs, calls>>
  ELSE IF src = "none"
    THEN /\ lastReq' = Op("postGenerate", 0, FALSE, "Miniflux not configured", "")
         /\ UNCHANGED <<generationJobs, calls>>
  ELSE LET jobId == Len(calls) + 1
           J1 == cleanupOldJobs(generationJobs, clock)
           call == generateBegin("job", ai, push)
       IN  /\ generationJobs' = [j \in DOMAIN J1 \cup {jobId} |->
                                  IF j = jobId THEN jobNext(jobGenerating(newJob(clock)), call)
                                  ELSE J1[j]]
           /\ calls' = Append(calls, [call EXCEPT !.bg = bgNext(call)])
           /\ lastReq' = Op("postGenerate", jobId, TRUE, "", "")

PostGenerate ==
  /\ Len(calls) < MaxCalls
  /\ \E ai \in AIConfigs, src \in SourceConfigs, push \in BOOLEAN : postGenerate(ai, src, push)
  /\ UNCHANGED <<digestTable, lastDigestId, clock>>
  /\ UNCHANGED notDigestVars

\* DigestService.generate called by executeTask: both config rows exist, the
\* AI config with or without a key
DirectGenerate ==
  /\ Len(calls) < MaxCalls
  /\ \E ai \in {"ok", "noKey"} :
       /\ calls' = Append(calls, generateBegin("direct", ai, FALSE))
       /\ lastReq' = Op("generate", Len(calls) + 1, TRUE, "", "")
  /\ UNCHANGED <<generationJobs, digestTable, lastDigestId, clock>>
  /\ UNCHANGED notDigestVars

\* the article source answers the request of the i-th call
SourceResponds ==
  /\ \E i \in 1..Len(calls), outcome \in FetchOutcomes :
       /\ calls[i].pc = "fetching"
       /\ Continue(i, afterFetch(calls[i], outcome))
       /\ lastReq' = Op("sourceResponds", i, TRUE, "", "")
  /\ UNCHANGED <<digestTable, lastDigestId, clock>>
  /\ UNCHANGED notDigestVars

\* proxyChatRequest of the i-th call resolves. When the race is already lost
\* nothing reads chunks any more
ProviderResponds ==
  /\ \E i \in 1..Len(calls), outcome \in ProviderOutcomes :
       /\ calls[i].response = "pending"
       /\ lastReq' = Op("providerResponds", i, TRUE, "", "")
       /\ IF calls[i].pc = "awaitingAI"
            THEN LET id == lastDigestId + 1
                     call == [afterProvider(calls[i], outcome, id) EXCEPT !.response = "arrived"]
                 IN  /\ outcome = "text" => lastDigestId < MaxRows
                     /\ Continue(i, call)
                     /\ IF call.result.state = "ok"
                          THEN /\ digestTable' = saveDigest(digestTable, id, call.result.digest)
                               /\ lastDigestId' = id
                          ELSE UNCHANGED <<digestTable, lastDigestId>>
            ELSE /\ calls' = [calls EXCEPT ![i].response = "arrived"]
                 /\ UNCHANGED <<generationJobs, digestTable, lastDigestId>>
  /\ UNCHANGED clock
  /\ UNCHANGED notDigestVars

\* the delay of the timer of the i-th call has passed and the timer goes off:
\* the race is lost when it is still on
TimerFires ==
  /\ \E i \in 1..Len(calls) :
       /\ calls[i].timer # Null
       /\ lastReq' = Op("timerFires", i, TRUE, "", "")
       /\ IF calls[i].pc = "awaitingAI"
            THEN Continue(i, clearTimeout(fail(calls[i], "AI request timeout")))
            ELSE /\ calls' = [calls EXCEPT ![i].timer = Null]
                 /\ UNCHANGED generationJobs
  /\ UNCHANGED <<digestTable, lastDigestId, clock>>
  /\ UNCHANGED notDigestVars

\* PushService.send of the background task of job i settles (resolved or
\* thrown)
JobPushSettles ==
  /\ \E i \in 1..Len(calls) :
       /\ calls[i].bg = "push"
       /\ calls' = [calls EXCEPT ![i].bg = "done"]
       /\ generationJobs' =
            IF i \in DOMAIN generationJobs
              THEN [generationJobs EXCEPT ![i] = jobCompleted(@, calls[i].result.digest)]
              ELSE generationJobs
       /\ lastReq' = Op("jobPushSettles", i, TRUE, "", "")
  /\ UNCHANGED <<digestTable, lastDigestId, clock>>
  /\ UNCHANGED notDigestVars

\* thirty minutes pass
ClockTick ==
  /\ clock < MaxClock
  /\ clock' = clock + 1
  /\ lastReq' = Op("clock", 0, TRUE, "", "")
  /\ UNCHANGED <<generationJobs, calls, digestTable, lastDigestId>>
  /\ UNCHANGED notDigestVars

-----------------------------------------------------------------------------
(* routes/digest.js: the digest routes *)

\* if (!title || !content) of POST /
manualSaveRejects(title, content) == title = "" \/ content = ""

\* POST / (manual save)
ManualSave ==
  /\ lastDigestId < MaxRows
  /\ \E title \in Texts, content \in Texts :
       IF manualSaveRejects(title, content)
         THEN /\ lastReq' = Op("manualSave", 0, FALSE, "Title and content are required", "")
              /\ UNCHANGED <<digestTable, lastDigestId>>
         ELSE /\ digestTable' = insertDigest(digestTable, lastDigestId + 1, content, 0)
              /\ lastDigestId' = lastDigestId + 1
              /\ lastReq' = Op("manualSave", lastDigestId + 1, TRUE, "", "")
  /\ UNCHANGED <<generationJobs, calls, clock>>
  /\ UNCHANGED notDigestVars

\* the row after the UPDATE of updateDigest(id, updates)
updateDigestRow(row, updates) ==
  [row EXCEPT
     !.content = IF "content" \in DOMAIN updates THEN updates.content ELSE @,
     !.is_read = IF "isRead" \in DOMAIN updates
                   THEN (IF updates.isRead THEN 1 ELSE 0) ELSE @]

\* updateDigest(id, updates) with one of title, content, isRead given
updateDigest(id, updates) ==
  /\ digestTable' = IF id \in DOMAIN digestTable
                      THEN [digestTable EXCEPT ![id] = updateDigestRow(@, updates)]
                      ELSE digestTable
  /\ lastReq' = Op("updateDigest", id, id \in DOMAIN digestTable,
                   IF id \in DOMAIN digestTable THEN "" ELSE "Digest not found", "")

\* PUT /:id
UpdateDigest ==
  /\ \E id \in 1..MaxRows :
       \/ \E c \in Texts : updateDigest(id, [content |-> c])
       \/ \E b \in BOOLEAN : updateDigest(id, [isRead |-> b])
       \/ /\ lastReq' = Op("updateDigest", id, FALSE, "Digest not found", "")
          /\ UNCHANGED digestTable
  /\ UNCHANGED <<generationJobs, calls, lastDigestId, clock>>
  /\ UNCHANGED notDigestVars

\* POST /:id/read
MarkAsRead ==
  /\ \E id \in 1..MaxRows :
       /\ digestTable' = IF id \in DOMAIN digestTable
                           THEN [digestTable EXCEPT ![id].is_read = 1]
                           ELSE digestTable
       /\ lastReq' = Op("markAsRead", id, id \in DOMAIN digestTable, "", "")
  /\ UNCHANGED <<generationJobs, calls, lastDigestId, clock>>
  /\ UNCHANGED notDigestVars

\* POST /read-all with no scope
MarkAllAsRead ==
  /\ digestTable' = [id \in DOMAIN digestTable |-> [digestTable[id] EXCEPT !.is_read = 1]]
  /\ lastReq' = Op("markAllAsRead", 0, TRUE, "", "")
  /\ UNCHANGED <<generationJobs, calls, lastDigestId, clock>>
  /\ UNCHANGED notDigestVars

\* DELETE /:id
DeleteDigest ==
  /\ \E id \in 1..MaxRows :
       /\ digestTable' = [i \in DOMAIN digestTable \ {id} |-> digestTable[i]]
       /\ lastReq' = Op("deleteDigest", id, id \in DOMAIN digestTable, "", "")
  /\ UNCHANGED <<generationJobs, calls, lastDigestId, clock>>
  /\ UNCHANGED notDigestVars

-----------------------------------------------------------------------------
(* ai-service.js: proxyChatRequest *)

\* what is written to the controller, one entry per SSE event: a data
\* envelope, the [DONE] marker, or the error envelope of the catch
DataItem == "data"
\* a line processStreamChunk cannot parse and passes on as it is
RawItem == "raw"
DoneItem == "DONE"
ErrorItem == "error"

\* how fetch(endpoint) settles
FetchResults == {"2xx", "non2xx", "networkError"}

\* what processStreamChunk makes of a chunk read from the body: a converted
\* data event, a line passed on as it is, nothing (null), or the provider's
\* own "data: [DONE]" line, after which the provider sends nothing more
ChunkKinds == {"data", "raw", "nothing", "marker"}

\* a stream loop that ends without writing the marker
onReadDoneSilent(S) == S

\* if (done) { controller.enqueue('data: [DONE]\n\n'); break; }
onReadDone(S) == Append(S, DoneItem)

\* the catch of proxyChatRequest
onError(S) == Append(S, ErrorItem)

\* the non-streaming branch after response.json()
onJson(S) == Append(Append(S, DataItem), DoneItem)

\* proxyChatRequest(config, params, controller) up to await fetch
ProxyCall ==
  /\ proxy.pc \in {"idle", "returned"}
  /\ \E stream \in BOOLEAN :
       proxy' = [pc |-> "fetching", stream |-> stream, status |-> "none",
                 body |-> "none", marker |-> FALSE]
  /\ sink' = <<>>
  /\ UNCHANGED notProxyVars

\* await fetch(endpoint, ...) settles
FetchSettles ==
  /\ proxy.pc = "fetching"
  /\ \E r \in FetchResults :
       IF r = "2xx"
         THEN /\ proxy' = [proxy EXCEPT !.pc = IF proxy.stream THEN "reading" ELSE "parsing",
                                        !.status = r, !.body = "open"]
              /\ UNCHANGED sink
         ELSE /\ proxy' = [proxy EXCEPT !.pc = "returned", !.status = r]
              /\ sink' = onError(sink)
  /\ UNCHANGED notProxyVars

\* await reader.read() gives a chunk
ReadChunk ==
  /\ proxy.pc = "reading"
  /\ ~proxy.marker
  /\ Len(sink) < MaxItems
  /\ \E kind \in ChunkKinds :
       /\ sink' = IF kind = "data" THEN Append(sink, DataItem)
                  ELSE IF kind = "raw" THEN Append(sink, RawItem)
                  ELSE IF kind = "marker" THEN Append(sink, DoneItem)
                  ELSE sink
       /\ proxy' = [proxy EXCEPT !.marker = (kind = "marker")]
  /\ UNCHANGED notProxyVars

\* await reader.read() gives done
ReadDone ==
  /\ proxy.pc = "reading"
  /\ sink' = onReadDone(sink)
  /\ proxy' = [proxy EXCEPT !.pc = "returned", !.body = "ended"]
  /\ UNCHANGED notProxyVars

\* await reader.read() rejects: the connection broke
ReadError ==
  /\ proxy.pc = "reading"
  /\ sink' = onError(sink)
  /\ proxy' = [proxy EXCEPT !.pc = "returned", !.body = "failed"]
  /\ UNCHANGED notProxyVars

\* await response.json() settles
JsonSettles ==
  /\ proxy.pc = "parsing"
  /\ \E ok \in BOOLEAN :
       IF ok
         THEN /\ sink' = onJson(sink)
              /\ proxy' = [proxy EXCEPT !.pc = "returned", !.body = "ended"]
         ELSE /\ sink' = onError(sink)
              /\ proxy' = [proxy EXCEPT !.pc = "returned", !.body = "failed"]
  /\ UNCHANGED notProxyVars

-----------------------------------------------------------------------------
(* push-service.js: sendPushNotification, POST mode *)

\* how the fetch of one chunk settles
SendOutcomes == {"2xx", "non2xx", "networkError"}

\* the entry results.push(...) adds for chunk i
chunkResult(outcome, i) ==
  IF outcome = "2xx" THEN [success |-> TRUE, status |-> "200", error |-> Undefined, chunk |-> i]
  ELSE IF outcome = "non2xx"
    THEN [success |-> FALSE, status |-> "500", error |-> "errBody", chunk |-> i]
  ELSE [success |-> FALSE, status |-> "ERR", error |-> "e.message", chunk |-> i]

\* a summary that reports the first chunk that failed
aggregateFirstFailure(results) ==
  LET failed == {i \in 1..Len(results) : ~results[i].success}
      first == IF failed = {} THEN Len(results)
               ELSE CHOOSE i \in failed : \A j \in failed : i <= j
  IN  [success |-> failed = {},
       status |-> results[first].status,
       error |-> results[first].error,
       chunks |-> Len(results),
       details |-> results]

\* the summary sendPushNotification returns
aggregate(results) ==
  LET allSuccess == \A i \in 1..Len(results) : results[i].success
      lastResult == results[Len(results)]
  IN  [success |-> allSuccess,
       status |-> lastResult.status,
       error |-> IF allSuccess THEN Undefined ELSE lastResult.error,
       chunks |-> Len(results),
       details |-> results]

NoResult ==
  [success |-> FALSE, status |-> NullText, error |-> Undefined, chunks |-> 0, details |-> <<>>]

\* no send in progress
PushIdle ==
  [pc |-> "idle", n |-> 0, i |-> 0, results |-> <<>>, sent |-> <<>>, inflight |-> {},
   bodies |-> <<>>, result |-> NoResult]

\* a body whose numbering starts at the second chunk
chunkBodySuffixAfterFirst(i, n) ==
  [title |-> i = 1, suffix |-> IF n > 1 /\ i > 1 THEN <<i, n>> ELSE <<>>]

\* what replaces {{title}} in the body of chunk i of n: the title for the
\* first chunk only, followed by the suffix " (i/n)" when n > 1
chunkBody(i, n) ==
  [title |-> i = 1, suffix |-> IF n > 1 THEN <<i, n>> ELSE <<>>]

\* the fetch of chunk i is issued
issue(p, i) ==
  [p EXCEPT !.pc = "awaiting", !.i = i, !.sent = Append(@, i), !.inflight = @ \cup {i},
            !.bodies = Append(@, chunkBody(i, p.n))]

\* a loop that goes on to the next chunk without the pause
afterChunkNoDelay(p) ==
  IF p.i < p.n THEN issue(p, p.i + 1)
  ELSE [p EXCEPT !.pc = "done", !.result = aggregate(p.results)]

\* a loop that gives up at the first chunk that failed
afterChunkStopsOnFailure(p) ==
  IF p.i < p.n /\ p.results[p.i].success THEN [p EXCEPT !.pc = "delaying"]
  ELSE [p EXCEPT !.pc = "done", !.result = aggregate(p.results)]

\* the loop once the result of chunk i is recorded: the pause before the
\* next chunk, or the summary after the last
afterChunk(p) ==
  IF p.i < p.n THEN [p EXCEPT !.pc = "delaying"]
  ELSE [p EXCEPT !.pc = "done", !.result = aggregate(p.results)]

\* sendPushNotification(pushConfig, title, content) with content that
\* splitText cuts into n chunks, up to the fetch of the first
PushSend ==
  /\ pushCall.pc \in {"idle", "done"}
  /\ \E n \in 1..MaxChunks : pushCall' = issue([PushIdle EXCEPT !.n = n], 1)
  /\ UNCHANGED notPushVars

\* the fetch of the chunk in flight settles and its result is recorded
ChunkResponds ==
  /\ pushCall.pc = "awaiting"
  /\ \E outcome \in SendOutcomes :
       pushCall' = afterChunk([pushCall EXCEPT !.results = Append(@, chunkResult(outcome, pushCall.i)),
                                       !.inflight = @ \ {pushCall.i}])
  /\ UNCHANGED notPushVars

\* the 500 ms between two chunks have passed: the next fetch is issued
DelayElapses ==
  /\ pushCall.pc = "delaying"
  /\ pushCall' = issue(pushCall, pushCall.i + 1)
  /\ UNCHANGED notPushVars

-----------------------------------------------------------------------------
(* push-service.js: the chunks of a POST push (lines 161-188) and splitText *)

\* limits.discord.content
DISCORD_CONTENT == 2000
\* a split is made only when more than this is available per chunk
MIN_PER_CHUNK == 100

\* a text, as its length and the positions (from 0) of its line feeds: the
\* other characters play no part in where splitText cuts
Text(len, nl) == [len |-> len, nl |-> nl]

\* where the contents tried have their line feeds: pairs are paragraph breaks
NewlineCandidates == <<300, 301, 1000, 1001, 1200, 1400, 1984, 2600, 2601, 3300>>

NewlinePositions ==
  {NewlineCandidates[k] : k \in 1..(IF MaxBreaks < Len(NewlineCandidates) THEN MaxBreaks
                                     ELSE Len(NewlineCandidates))}

\* content.length of the contents tried
ContentLengths == {0, 1500, 2001, 2700, 4500}

\* the length of the body template with the title filled in
TemplateOverheads == {16, 700}

Contents ==
  {Text(len, nl) : len \in ContentLengths, nl \in SUBSET NewlinePositions}

\* String.prototype.substring(start, end): the arguments are clamped to
\* 0..length and swapped when start > end
substring(t, start, end) ==
  LET clamp(x) == IF x < 0 THEN 0 ELSE IF x > t.len THEN t.len ELSE x
      a == IF clamp(start) <= clamp(end) THEN clamp(start) ELSE clamp(end)
      b == IF clamp(start) <= clamp(end) THEN clamp(end) ELSE clamp(start)
  IN  Text(b - a, {q - a : q \in {r \in t.nl : a <= r /\ r < b}})

\* String.prototype.lastIndexOf of a run of n line feeds, searched backwards
\* from fromIndex: the greatest start of a match, or -1
lastIndexOf(t, n, fromIndex) ==
  LET starts == {q \in t.nl : /\ q <= fromIndex
                              /\ q + n <= t.len
                              /\ \A d \in 0..(n - 1) : q + d \in t.nl}
  IN  IF starts = {} THEN -1 ELSE CHOOSE q \in starts : \A r \in starts : r <= q

\* .replace(/^\n+/, ''): the line feeds the text starts with are removed
stripLeadingNewlines(t) ==
  LET k == CHOOSE j \in 0..Cardinality(t.nl) : (\A d \in 0..(j - 1) : d \in t.nl) /\ j \notin t.nl
  IN  substring(t, k, t.len)

\* splitPos < maxLen * 0.3
tooEarly(splitPos, maxLen) == splitPos * 10 < maxLen * 3

\* a choice of the split position that keeps any paragraph or line break found
splitPosAnyBreak(remaining, maxLen) ==
  LET paragraph == lastIndexOf(remaining, 2, maxLen)
      line == IF paragraph < 1 THEN lastIndexOf(remaining, 1, maxLen) ELSE paragraph
  IN  IF line < 1 THEN maxLen ELSE line

\* the split position of one iteration of the loop of splitText
splitPos(remaining, maxLen) ==
  LET paragraph == lastIndexOf(remaining, 2, maxLen)
      line == IF tooEarly(paragraph, maxLen) THEN lastIndexOf(remaining, 1, maxLen)
              ELSE paragraph
  IN  IF tooEarly(line, maxLen) THEN maxLen ELSE line

\* fieldLimit - Math.min(templateOverhead, fieldLimit * 0.3)
availablePerChunk(fieldLimit, templateOverhead) ==
  LET cap == (fieldLimit * 3) \div 10
  IN  fieldLimit - (IF templateOverhead < cap THEN templateOverhead ELSE cap)

SplitIdle ==
  [pc |-> "idle", content |-> Text(0, {}), maxLen |-> 0, remaining |-> Text(0, {}),
   chunks |-> <<>>, split |-> FALSE]

\* one iteration of the while loop of splitText
splitIteration(c) ==
  IF c.remaining.len <= c.maxLen
    THEN [c EXCEPT !.pc = "done", !.chunks = Append(@, c.remaining)]
  ELSE LET pos == splitPos(c.remaining, c.maxLen)
           rest == stripLeadingNewlines(substring(c.remaining, pos, c.remaining.len))
       IN  [c EXCEPT !.chunks = Append(@, substring(c.remaining, 0, pos)),
                     !.remaining = rest,
                     !.pc = IF rest.len > 0 THEN "loop" ELSE "done"]

\* splitText(text, maxLen) up to the head of its loop
splitTextBegin(c, text, maxLen) ==
  IF text.len <= maxLen
    THEN [c EXCEPT !.pc = "done", !.chunks = <<text>>, !.split = TRUE, !.maxLen = maxLen]
  ELSE [c EXCEPT !.pc = IF text.len > 0 THEN "loop" ELSE "done", !.chunks = <<>>,
                 !.remaining = text, !.split = TRUE, !.maxLen = maxLen]

\* sendPushNotification to a Discord webhook works out contentChunks (one
\* call is followed)
PrepareChunks ==
  /\ splitCall.pc = "idle"
  /\ \E content \in Contents, templateOverhead \in TemplateOverheads :
       LET fieldLimit == DISCORD_CONTENT
           available == availablePerChunk(fieldLimit, templateOverhead)
           c == [SplitIdle EXCEPT !.content = content, !.maxLen = available]
       IN  splitCall' =
             IF fieldLimit > 0 /\ content.len > 0 /\ content.len > fieldLimit
                  /\ available > MIN_PER_CHUNK
               THEN splitTextBegin(c, content, available)
             ELSE [c EXCEPT !.pc = "done", !.chunks = <<content>>]
  /\ UNCHANGED notSplitVars

\* the loop of splitText runs one iteration
SplitIteration ==
  /\ splitCall.pc = "loop"
  /\ splitCall' = splitIteration(splitCall)
  /\ UNCHANGED notSplitVars

-----------------------------------------------------------------------------
(* digest-service.js: truncateByToken *)

\* const maxTokens = 1000 of prepareArticlesForDigest
MAX_TOKENS == 1000
\* the estimate of one character, in tenths of a token: 1.6 for a CJK
\* ideograph, 0.3 for any other character
CJK_TENTHS == 16
OTHER_TENTHS == 3

\* a text, as a sequence of runs of characters of one kind
Run(cjk, n) == [cjk |-> cjk, n |-> n]
RunCounts == {1, 624, 3333}
Runs == {Run(cjk, n) : cjk \in BOOLEAN, n \in RunCounts}

\* text.length
RECURSIVE textLength(_)
textLength(text) ==
  IF text = <<>> THEN 0 ELSE text[1].n + textLength(Tail(text))

\* the loop of truncateByToken from run k on, with accTokens (in tenths) and
\* the index i reached: the index at which accTokens >= maxTokens first
\* holds, or -1 when the loop ends without it. accTokens is a sum of doubles:
\* where the exact sum equals maxTokens the rounded sum may lie just below
\* it, and the test then holds one character later (exactHit = FALSE).
RECURSIVE breachIndex(_, _, _, _, _, _)
breachIndex(text, k, accTokens, i, maxTokens, exactHit) ==
  IF k > Len(text) THEN -1
  ELSE LET w == IF text[k].cjk THEN CJK_TENTHS ELSE OTHER_TENTHS
           need == maxTokens * 10 - accTokens
           atLeast == (need + w - 1) \div w
           above == (need \div w) + 1
           raw == IF exactHit THEN atLeast ELSE above
           j == IF raw < 1 THEN 1 ELSE raw
       IN  IF j <= text[k].n THEN i + j - 1
           ELSE breachIndex(text, k + 1, accTokens + text[k].n * w, i + text[k].n,
                            maxTokens, exactHit)

\* a string returned by truncateByToken: the first kept characters of the
\* text, followed by '...' when ellipsis
Truncated(kept, ellipsis) == [kept |-> kept, ellipsis |-> ellipsis]

\* a cut that keeps maxTokens characters
cutAtBudget(text, cutIndex, maxTokens) ==
  Truncated(IF maxTokens < cutIndex THEN maxTokens ELSE cutIndex, TRUE)

\* text.substring(0, cutIndex) + '...'
cut(text, cutIndex, maxTokens) == Truncated(cutIndex, TRUE)

truncateByToken(text, maxTokens, exactHit) ==
  IF text = <<>> THEN Truncated(0, FALSE)
  ELSE LET cutIndex == breachIndex(text, 1, 0, 0, maxTokens, exactHit)
       IN  IF cutIndex >= 0 THEN cut(text, cutIndex, maxTokens)
           ELSE Truncated(textLength(text), FALSE)

TruncIdle == [text |-> <<>>, exactHit |-> TRUE, summary |-> Truncated(0, FALSE)]

\* prepareArticlesForDigest calls truncateByToken on a content that is the
\* content of the call before with one more run of characters
Truncate ==
  /\ Len(truncCall.text) < MaxRuns
  /\ \E run \in Runs, exactHit \in BOOLEAN :
       LET text == Append(truncCall.text, run)
           rounding == IF truncCall.text = <<>> THEN exactHit ELSE truncCall.exactHit
       IN  truncCall' = [text |-> text, exactHit |-> rounding,
                         summary |-> truncateByToken(text, MAX_TOKENS, rounding)]
  /\ UNCHANGED notTruncVars

-----------------------------------------------------------------------------
(* ai-service.js: the stream loop of proxyChatRequest with processStreamChunk,
   and digest-service.js: the reassembly in callAIForDigest, for a provider
   that streams in the OpenAI format *)

\* the pieces of the provider's stream: 'data: ', the first and the second
\* part of the JSON object that carries the content delta d, '[DONE]' and
\* the line feed. A read of the transport ends between two pieces.
Piece(t, d) == [t |-> t, d |-> d]
PrefixPiece == Piece("data: ", "")
DonePiece == Piece("[DONE]", "")
NL == Piece("\n", "")

\* the content deltas the provider sends, in order
DeltaTexts == <<"A", "B", "C", "D">>
Deltas == [k \in 1..(IF MaxDeltas < Len(DeltaTexts) THEN MaxDeltas ELSE Len(DeltaTexts))
             |-> DeltaTexts[k]]

\* data: {"choices":[{"delta":{"content":d}}]} and the blank line
Event(d) == <<PrefixPiece, Piece("json-head", d), Piece("json-tail", d), NL, NL>>

RECURSIVE Events(_)
Events(ds) == IF ds = <<>> THEN <<>> ELSE Event(ds[1]) \o Events(Tail(ds))

\* what the provider sends: one event per delta, then data: [DONE]
ProviderStream == Events(Deltas) \o <<PrefixPiece, DonePiece, NL, NL>>

\* String.prototype.split('\n'): the lines of a text, empty ones included
RECURSIVE split(_)
split(text) ==
  LET feeds == {k \in 1..Len(text) : text[k] = NL}
  IN  IF feeds = {} THEN <<text>>
      ELSE LET k == CHOOSE x \in feeds : \A y \in feeds : x <= y
           IN  <<SubSeq(text, 1, k - 1)>> \o split(SubSeq(text, k + 1, Len(text)))

\* JSON.parse succeeds on data: it is one whole object
parses(data) ==
  /\ Len(data) = 2
  /\ data[1].t = "json-head"
  /\ data[2].t = "json-tail"
  /\ data[1].d = data[2].d

\* what processStreamChunk adds to result for one non-empty line
processLine(line) ==
  IF line[1] = PrefixPiece
    THEN LET data == Tail(line)
         IN  IF data = <<DonePiece>> THEN <<PrefixPiece, DonePiece, NL, NL>>
             ELSE IF parses(data) THEN <<PrefixPiece>> \o data \o <<NL, NL>>
             ELSE line \o <<NL, NL>>
  ELSE <<PrefixPiece>> \o line \o <<NL, NL>>

\* the lines of one read that are not empty, each processed on its own
RECURSIVE processLines(_)
processLines(lines) ==
  IF lines = <<>> THEN <<>>
  ELSE (IF lines[1] = <<>> THEN <<>> ELSE processLine(lines[1])) \o processLines(Tail(lines))

\* processStreamChunk(provider, chunk) for the default (OpenAI) format
processStreamChunk(chunk) == processLines(split(chunk))

\* the piece of content callAIForDigest takes from one line of streamText
pieceOf(line) ==
  IF line = <<>> \/ line[1] # PrefixPiece THEN <<>>
  ELSE LET payload == Tail(line)
       IN  IF payload = <<>> \/ payload = <<DonePiece>> THEN <<>>
           ELSE IF parses(payload) THEN <<payload[1].d>>
           ELSE <<>>

RECURSIVE pieces(_)
pieces(lines) ==
  IF lines = <<>> THEN <<>> ELSE pieceOf(lines[1]) \o pieces(Tail(lines))

\* the content callAIForDigest rebuilds from what was enqueued
reassemble(chunks) == pieces(split(chunks))

StreamIdle == [pc |-> "idle", pos |-> 0, chunks |-> <<>>, content |-> <<>>, error |-> ""]

\* callAIForDigest calls proxyChatRequest and the provider answers 2xx
StreamOpen ==
  /\ streamCall.pc = "idle"
  /\ streamCall' = [StreamIdle EXCEPT !.pc = "reading"]
  /\ UNCHANGED notStreamVars

\* reader.read() returns the next part of the stream, of any length:
\* processStreamChunk turns it into what is enqueued
StreamRead ==
  /\ streamCall.pc = "reading"
  /\ streamCall.pos < Len(ProviderStream)
  /\ \E n \in 1..(Len(ProviderStream) - streamCall.pos) :
       LET chunk == SubSeq(ProviderStream, streamCall.pos + 1, streamCall.pos + n)
       IN  streamCall' = [streamCall EXCEPT !.pos = @ + n,
                                            !.chunks = @ \o processStreamChunk(chunk)]
  /\ UNCHANGED notStreamVars

\* reader.read() reports done: the marker is enqueued, proxyChatRequest
\* resolves and callAIForDigest rebuilds the content
StreamEnds ==
  /\ streamCall.pc = "reading"
  /\ streamCall.pos = Len(ProviderStream)
  /\ LET chunks == streamCall.chunks \o <<PrefixPiece, DonePiece, NL, NL>>
         content == reassemble(chunks)
     IN  streamCall' = [streamCall EXCEPT !.pc = "returned", !.chunks = chunks,
                                          !.content = content,
                                          !.error = IF content = <<>> THEN "empty" ELSE ""]
  /\ UNCHANGED notStreamVars

-----------------------------------------------------------------------------
(* useDigest.js: generateDigestItem and its polling of GET /jobs/:jobId, with
   the generation state and the digest list of the client store *)

\* digestGenerationState after startGeneration()
startGeneration ==
  [isGenerating |-> TRUE, progress |-> 0, status |-> "fetching", error |-> NullText,
   generatedDigest |-> FALSE]

\* updateGenerationProgress(progress, status)
updateGenerationProgress(g, progress, status) ==
  [g EXCEPT !.progress = progress, !.status = status]

\* completeGeneration(digest)
completeGeneration(g) ==
  [g EXCEPT !.isGenerating = FALSE, !.progress = 100, !.status = "completed",
            !.generatedDigest = TRUE]

\* failGeneration(error)
failGeneration(g, error) ==
  [g EXCEPT !.isGenerating = FALSE, !.status = "error", !.error = error]

\* the job as the server holds it; "none" before the request, "gone" once it
\* is purged or the server has restarted
ServerJob(status, progress) == [status |-> status, progress |-> progress]

ClientIdle ==
  [job |-> ServerJob("none", 0), interval |-> FALSE, polls |-> <<>>, sent |-> 0,
   gen |-> [isGenerating |-> FALSE, progress |-> 0, status |-> NullText, error |-> NullText,
            generatedDigest |-> FALSE],
   digests |-> 0]

\* a poll that is still waiting for its answer
Pending == ServerJob("pending-request", 0)

\* the callback of the poll interval once getJobStatus has settled with job
\* ("gone": no job in the answer, or the request failed)
onPollResponse(c, job) ==
  IF job.status = "gone"
    THEN [c EXCEPT !.interval = FALSE, !.gen = failGeneration(@, "Job lost")]
  ELSE IF job.status = "generating"
    THEN [c EXCEPT !.gen = updateGenerationProgress(@, job.progress, "generating")]
  ELSE IF job.status = "completed"
    THEN [c EXCEPT !.interval = FALSE,
                   !.gen = completeGeneration(updateGenerationProgress(@, 100, "completed")),
                   !.digests = @ + 1]
  ELSE IF job.status = "error"
    THEN [c EXCEPT !.interval = FALSE, !.gen = failGeneration(@, "Generation failed")]
  ELSE c

\* generateDigestItem up to setInterval: POST /generate has answered with a
\* job id, the job is 'generating' on the server
ClientGenerate ==
  /\ client.job.status = "none"
  /\ client' = [client EXCEPT
                  !.job = ServerJob("generating", 20),
                  !.gen = updateGenerationProgress(startGeneration, 20, "generating"),
                  !.interval = TRUE]
  /\ UNCHANGED notClientVars

\* three seconds have passed with the interval on: the callback starts and
\* sends its GET /jobs/:jobId, whether or not earlier polls have settled
IntervalFires ==
  /\ client.interval
  /\ client.sent < MaxPolls
  /\ client' = [client EXCEPT !.polls = Append(@, Pending), !.sent = @ + 1]
  /\ UNCHANGED notClientVars

\* the server answers a poll with the job as it is at that moment
ServerAnswers ==
  /\ \E k \in 1..Len(client.polls) :
       /\ client.polls[k] = Pending
       /\ client' = [client EXCEPT !.polls[k] = client.job]
  /\ UNCHANGED notClientVars

\* the answer of a poll reaches the client and its callback goes on
ResponseArrives ==
  /\ \E k \in 1..Len(client.polls) :
       /\ client.polls[k] # Pending
       /\ client' = [onPollResponse(client, client.polls[k]) EXCEPT
                       !.polls = [j \in 1..(Len(client.polls) - 1) |->
                                    IF j < k THEN client.polls[j] ELSE client.polls[j + 1]]]
  /\ UNCHANGED notClientVars

\* the background task of the job moves on: to its push, to completed or to
\* error
JobAdvances ==
  /\ client.job.status = "generating"
  /\ \E next \in {ServerJob("generating", 90), ServerJob("completed", 100),
                  ServerJob("error", client.job.progress)} :
       /\ next # client.job
       /\ client' = [client EXCEPT !.job = next]
  /\ UNCHANGED notClientVars

\* the job is purged or the server restarts
JobLost ==
  /\ client.job.status \in {"generating", "completed", "error"}
  /\ client' = [client EXCEPT !.job = ServerJob("gone", 0)]
  /\ UNCHANGED notClientVars

-----------------------------------------------------------------------------

Init ==
  /\ tasks = [i \in {} |-> i]
  /\ lastId = 0
  /\ activeJobs = [k \in {} |-> k]
  /\ runs = <<>>
  /\ digests = 0
  /\ now = 0
  /\ lastOp = Op("start", 0, TRUE, "", "")
  /\ generationJobs = [j \in {} |-> j]
  /\ calls = <<>>
  /\ digestTable = [i \in {} |-> i]
  /\ lastDigestId = 0
  /\ clock = 0
  /\ lastReq = Op("start", 0, TRUE, "", "")
  /\ proxy = [pc |-> "idle", stream |-> TRUE, status |-> "none", body |-> "none",
              marker |-> FALSE]
  /\ sink = <<>>
  /\ pushCall = PushIdle
  /\ splitCall = SplitIdle
  /\ truncCall = TruncIdle
  /\ streamCall = StreamIdle
  /\ client = ClientIdle

Next ==
  \/ CreateTask
  \/ UpdateTask
  \/ DeleteTask
  \/ EnableTask
  \/ DisableTask
  \/ RunTaskNow
  \/ GenerateResolves
  \/ PushResolves
  \/ Tick
  \/ Restart

Spec == Init /\ [][Next]_vars

\* the generation jobs and the generate calls
NextDigest ==
  \/ PostGenerate
  \/ DirectGenerate
  \/ SourceResponds
  \/ ProviderResponds
  \/ TimerFires
  \/ JobPushSettles
  \/ ClockTick

SpecDigest == Init /\ [][NextDigest]_vars

\* the operations that write the digests table: generate called directly
\* (no time passes, so no call times out) and the digest routes
NextStore ==
  \/ DirectGenerate
  \/ SourceResponds
  \/ ProviderResponds
  \/ ManualSave
  \/ UpdateDigest
  \/ MarkAsRead
  \/ MarkAllAsRead
  \/ DeleteDigest

SpecStore == Init /\ [][NextStore]_vars

\* calls of proxyChatRequest, one at a time
NextProxy ==
  \/ ProxyCall
  \/ FetchSettles
  \/ ReadChunk
  \/ ReadDone
  \/ ReadError
  \/ JsonSettles

SpecProxy == Init /\ [][NextProxy]_vars

\* calls of sendPushNotification, one at a time
NextPush ==
  \/ PushSend
  \/ ChunkResponds
  \/ DelayElapses

SpecPush == Init /\ [][NextPush]_vars

\* the contentChunks of a push are worked out, one push at a time
NextSplit ==
  \/ PrepareChunks
  \/ SplitIteration

SpecSplit == Init /\ [][NextSplit]_vars

\* truncateByToken on longer and longer contents
NextTrunc ==
  \/ Truncate

SpecTrunc == Init /\ [][NextTrunc]_vars

\* one callAIForDigest whose provider streams its answer
NextStream ==
  \/ StreamOpen
  \/ StreamRead
  \/ StreamEnds

SpecStream == Init /\ [][NextStream]_vars

\* one generation started from the client and polled
NextClient ==
  \/ ClientGenerate
  \/ IntervalFires
  \/ ServerAnswers
  \/ ResponseArrives
  \/ JobAdvances
  \/ JobLost

SpecClient == Init /\ [][NextClient]_vars

-----------------------------------------------------------------------------
(* Properties *)

\* task n has a stored row with is_active = 1
RowActive(n) == HasRow(tasks, n) /\ tasks[n].is_active = 1

\* the live triggers registered for task n, under any key
Triggers(n) == {k \in DOMAIN activeJobs : k.v = n}

\* a step that starts a run: executeTask is entered (it either suspends at
\* generate or fails its configuration checks at once)
RunStarts ==
  \/ lastOp'.op = "runStart" /\ Len(runs') = Len(runs) + 1
  \/ lastOp'.op = "runEnd" /\ Len(runs') = Len(runs)

\* a step that ends a run
RunEnds == lastOp'.op = "runEnd"

\* C1: after any sequence of scheduler operations the registry holds at most
\* one live trigger per task id, and holds one exactly when the task's row
\* exists with is_active = 1.
C1_TriggerIffActiveRow ==
  \A n \in TaskIds :
    /\ Cardinality(Triggers(n)) <= 1
    /\ (Triggers(n) # {}) <=> RowActive(n)

\* C2: after disableTask(id) has returned no cron firing starts a run of the
\* task until it is enabled again. disableTask leaves the row with
\* is_active = 0 and no trigger under the key it was given, so the onTick
\* callback would start nothing; only enableTask, or updateTask or createTask
\* writing is_active = 1, make the row one a firing runs; and no clock step
\* starts a run of a task whose row is inactive.
C2_NoFiringWhileDisabled ==
  [][\A n \in TaskIds :
       /\ (lastOp'.op = "disableTask" /\ lastOp'.id = n)
            => /\ ~onTickRuns(tasks', n)
               /\ StrKey(n) \notin DOMAIN activeJobs'
       /\ (~onTickRuns(tasks, n) /\ onTickRuns(tasks', n))
            => lastOp'.op \in {"enableTask", "updateTask", "createTask"}
       /\ (lastOp'.op = "tick" /\ ~onTickRuns(tasks, n))
            => /\ \A i \in (Len(runs) + 1)..Len(runs') : runs'[i].task.id # n
               /\ HasRow(tasks, n) => tasks'[n] = tasks[n]]_vars

\* a task that has run before has just been disabled
C2_Witness ==
  /\ lastOp.op = "disableTask"
  /\ HasRow(tasks, lastOp.id)
  /\ tasks[lastOp.id].is_active = 0
  /\ tasks[lastOp.id].last_run_at # Null

\* C3: on every cron firing (an occurrence of the cron expression of a task
\* whose row is active) the scheduler reads the row at that time and runs
\* with it: after the clock step the row's last_run_at is that time, the
\* first thing a run writes.
C3_FiringRunsStoredRow ==
  lastOp.op = "tick" =>
    \A n \in TaskIds :
      (RowActive(n) /\ IsOccurrence(tasks[n].cron_expression, now))
        => tasks[n].last_run_at = now

\* C4: a run sets last_run_at to its time when it starts; when it finishes
\* with success next_run_at is the next occurrence of the task's cron
\* expression and last_error is NULL; when it fails last_error is the error
\* message and next_run_at is unchanged.
C4_RunBookkeeping ==
  [][\A n \in TaskIds :
       (lastOp'.id = n /\ HasRow(tasks', n)) =>
         /\ RunStarts => tasks'[n].last_run_at = now
         /\ (RunEnds /\ lastOp'.ok) =>
              /\ CronParses(lastOp'.arg)
              /\ tasks'[n].next_run_at = NextDate(lastOp'.arg, now)
              /\ tasks'[n].last_error = NullText
         /\ (RunEnds /\ ~lastOp'.ok) =>
              /\ tasks'[n].last_error = lastOp'.err
              /\ tasks'[n].next_run_at = tasks[n].next_run_at]_vars

\* C5 (as claimed, for a task whose cron expression parses): no step of a
\* run started by runTaskNow changes the task's next_run_at, whether the run
\* succeeds or fails.
C5_ManualRunKeepsNextRun ==
  [][\A n \in TaskIds :
       (lastOp'.id = n /\ HasRow(tasks', n) /\ HasRow(tasks, n)
        /\ CronParses(lastOp'.arg)
        /\ (RunStarts \/ RunEnds \/ lastOp'.op = "generated"))
         => tasks'[n].next_run_at = tasks[n].next_run_at]_vars

\* C5 (amended): a run started by runTaskNow leaves next_run_at unchanged
\* when it starts, while it is in flight and when it fails; when it succeeds
\* it overwrites next_run_at with the next occurrence, computed at that
\* time, of the cron expression of the row it was started with (NULL when
\* that expression does not parse).
C5_ManualRunResetsNextRunOnSuccess ==
  [][\A n \in TaskIds :
       (lastOp'.id = n /\ HasRow(tasks', n) /\ HasRow(tasks, n)) =>
         /\ ((RunStarts \/ lastOp'.op = "generated" \/ (RunEnds /\ ~lastOp'.ok))
               => tasks'[n].next_run_at = tasks[n].next_run_at)
         /\ ((RunEnds /\ lastOp'.ok)
               => tasks'[n].next_run_at = getNextRunTime(lastOp'.arg, now))]_vars

\* a manual run has just succeeded at clock 1 and moved next_run_at from the
\* value createTask stored to the occurrence after its completion
C5_Witness ==
  /\ lastOp.op = "runEnd" /\ lastOp.ok
  /\ now = 1
  /\ HasRow(tasks, lastOp.id)
  /\ tasks[lastOp.id].next_run_at = 2

\* C6: createTask with a cron expression that does not parse returns
\* {success: false}, inserts no row and registers no trigger.
C6_InvalidCronCreatesNothing ==
  [][(lastOp'.op = "createTask" /\ ~CronParses(lastOp'.arg)) =>
       /\ ~lastOp'.ok
       /\ tasks' = tasks
       /\ lastId' = lastId
       /\ activeJobs' = activeJobs]_vars

\* createTask has just been called with an expression that does not parse
C6_Witness ==
  /\ lastOp.op = "createTask" /\ lastOp.arg = "bad" /\ ~lastOp.ok
  /\ DOMAIN tasks = {}

\* C7: updateTask with a cron expression that does not parse is rejected
\* and leaves the row and its trigger unchanged, so no stored row has a cron
\* expression that does not parse.
C7_StoredCronParses ==
  /\ \A n \in DOMAIN tasks : CronParses(tasks[n].cron_expression)
  /\ (lastOp.op = "updateTask" /\ lastOp.arg = "bad" /\ HasRow(tasks, lastOp.id))
       => ~lastOp.ok

\* C8: after a run of an active task has failed, last_error holds its error
\* message, the task is still active and its trigger is still registered
\* (so the next cron firing starts a new run).
C8_FailedRunKeepsTrigger ==
  \A n \in TaskIds :
    (lastOp.op = "runEnd" /\ ~lastOp.ok /\ lastOp.id = n /\ RowActive(n)) =>
      /\ tasks[n].last_error = lastOp.err
      /\ Triggers(n) # {}

\* C9: every run calls the Digest Generator with options equal to the
\* persisted values of the row it was started with: scope, scope_id as feedId
\* or groupId according to scope, hours (0 included), target_lang and
\* unread_only.
C9_OptionsEqualRow ==
  [][\A n \in TaskIds :
       (lastOp'.op = "runStart" /\ lastOp'.id = n /\ Len(runs') = Len(runs) + 1) =>
         LET o == runs'[Len(runs')].options
             row == tasks[n]
         IN  /\ o.scope = row.scope
             /\ o.feedId = (IF row.scope = "feed" THEN row.scope_id ELSE Null)
             /\ o.groupId = (IF row.scope = "group" THEN row.scope_id ELSE Null)
             /\ o.hours = row.hours
             /\ o.targetLang = row.target_lang
             /\ o.unreadOnly = (row.unread_only = 1)]_vars

\* C10: runs of one task are not mutually excluded. runTaskNow is refused
\* only when the row does not exist, whatever runs are in flight; every run
\* whose generate returns a stored digest adds its own row to digests; and
\* each write of a run to the task row takes effect whatever the other runs
\* wrote before (the last writer's values stand).
C10_RunsNotExcluded ==
  [][/\ lastOp'.op = "runTaskNow" => ~HasRow(tasks, lastOp'.id)
     /\ (lastOp'.op \in {"generated", "runEnd"} /\ lastOp'.err = "digest")
          => digests' = digests + 1
     /\ \A n \in TaskIds :
          (lastOp'.id = n /\ HasRow(tasks', n)) =>
            /\ RunStarts => tasks'[n].last_run_at = now
            /\ (RunEnds /\ lastOp'.ok) =>
                 /\ tasks'[n].next_run_at = getNextRunTime(lastOp'.arg, now)
                 /\ tasks'[n].last_error = NullText
            /\ (RunEnds /\ ~lastOp'.ok) => tasks'[n].last_error = lastOp'.err]_vars

\* two runs of the same task are in flight at the same time
C10_Witness ==
  /\ Len(runs) >= 2
  /\ runs[1].task.id = runs[2].task.id
  /\ digests >= 1

\* C11: disabling or deleting a task while one of its runs is in flight does
\* not stop the run. disableTask and deleteTask leave the suspended runs and
\* the digests table as they are and only make later firings start nothing;
\* a suspended run leaves only by ending (or with the process); a run whose
\* task is disabled or deleted can still get its digest, and when generate
\* returns a stored digest the digests table has one more row.
C11_RunSurvivesDisableDelete ==
  [][/\ lastOp'.op \in {"disableTask", "deleteTask"}
          => /\ runs' = runs
             /\ digests' = digests
             /\ ~onTickRuns(tasks', lastOp'.id)
             /\ StrKey(lastOp'.id) \notin DOMAIN activeJobs'
     /\ Len(runs') < Len(runs) => lastOp'.op \in {"runEnd", "initialize"}
     /\ \A i \in 1..Len(runs) :
          (runs[i].pc = "generating" /\ ~onTickRuns(tasks, runs[i].task.id)
           /\ digests < MaxDigests)
            => ENABLED GenerateSettles(i, "digest")
     /\ (lastOp'.op \in {"generated", "runEnd"} /\ lastOp'.err = "digest"
         /\ ~onTickRuns(tasks, lastOp'.id))
          => digests' = digests + 1]_vars

\* a run has completed with a stored digest after its task was deleted
C11_Witness ==
  /\ lastOp.op = "runEnd" /\ lastOp.ok /\ lastOp.err = "digest"
  /\ ~HasRow(tasks, lastOp.id)
  /\ digests >= 1

\* C12: a job's status only moves pending -> generating -> completed or
\* pending -> generating -> error. A job is created pending and is generating
\* when POST /generate returns; from then on its status changes only from
\* generating to completed or error; once it is completed or error no step
\* changes its status, digest or error.
C12_JobStatusMoves ==
  [][/\ newJob(clock).status = "pending"
     /\ \A j \in DOMAIN generationJobs' \ DOMAIN generationJobs :
          /\ lastReq'.op = "postGenerate" /\ lastReq'.id = j
          /\ generationJobs'[j].status = "generating"
     /\ \A j \in DOMAIN generationJobs \cap DOMAIN generationJobs' :
          LET old == generationJobs[j]
              new == generationJobs'[j]
          IN  /\ old.status # new.status
                   => /\ old.status = "generating"
                      /\ new.status \in {"completed", "error"}
              /\ old.status \in {"completed", "error"}
                   => /\ new.status = old.status
                      /\ new.digest = old.digest
                      /\ new.error = old.error]_vars

\* one job has completed with its digest and another has failed
C12_Witness ==
  \E j, k \in DOMAIN generationJobs :
    /\ generationJobs[j].status = "completed"
    /\ generationJobs[j].digest.id # Null
    /\ generationJobs[k].status = "error"
    /\ calls[k].bg = "done"

\* C13: immediately after an accepted POST /generate at time t the registry
\* holds no job with t - createdAt > 30 minutes, and every job that was in
\* it with t - createdAt <= 30 minutes, and the new job, is still found by
\* GET /jobs/:jobId.
C13_PurgeOnCreate ==
  [][(lastReq'.op = "postGenerate" /\ lastReq'.ok) =>
       /\ \A j \in DOMAIN generationJobs' :
            ~(clock - generationJobs'[j].createdAt > JOB_TTL_MS)
       /\ \A j \in DOMAIN generationJobs :
            (clock - generationJobs[j].createdAt <= JOB_TTL_MS)
              => getJob(generationJobs', j).success
       /\ getJob(generationJobs', lastReq'.id).success
       /\ generationJobs'[lastReq'.id].createdAt = clock]_vars

\* a POST /generate has just purged the job created an hour before
C13_Witness ==
  /\ lastReq.op = "postGenerate" /\ lastReq.ok
  /\ clock = 2
  /\ Len(calls) = 2
  /\ DOMAIN generationJobs = {2}

C15_TimeoutRace ==
  [][\A i \in 1..Len(calls) :
       /\ (lastReq'.op = "timerFires" /\ lastReq'.id = i)
            => /\ calls[i].pc = "awaitingAI"
               /\ calls'[i].result = Result("error", "AI request timeout", NoDigest)
               /\ digestTable' = digestTable
               /\ lastDigestId' = lastDigestId
       /\ (lastReq'.op = "providerResponds" /\ lastReq'.id = i /\ calls[i].pc = "done")
            => /\ calls'[i].result = calls[i].result
               /\ digestTable' = digestTable
               /\ generationJobs' = generationJobs
       /\ (lastReq'.op = "providerResponds" /\ lastReq'.id = i /\ calls[i].pc = "awaitingAI")
            => /\ calls'[i].timer = Null
               /\ calls'[i].result.error # "AI request timeout"
               /\ calls'[i].result.state = "ok" => calls'[i].result.digest.id \in DOMAIN digestTable'
       /\ (calls[i].result.state # "pending")
            => calls'[i].result = calls[i].result]_vars

\* the response of the provider has arrived after the call timed out
C15_Witness ==
  /\ lastReq.op = "providerResponds"
  /\ calls[lastReq.id].result.error = "AI request timeout"
  /\ calls[lastReq.id].response = "arrived"
  /\ lastDigestId = 0

\* C16: generate over a window with no matching article returns success with
\* a placeholder digest whose articleCount is 0 and whose content is not
\* empty, never an error, whatever calls came before.
C16_EmptyWindowPlaceholder ==
  \A i \in 1..Len(calls) :
    calls[i].articles = 0 =>
      /\ calls[i].result.state = "ok"
      /\ calls[i].result.digest.articleCount = 0
      /\ calls[i].result.digest.content \notin {"", NullText}

\* two calls in a row have both returned the placeholder
C16_Witness ==
  /\ Len(calls) >= 2
  /\ calls[1].articles = 0 /\ calls[1].result.state = "ok"
  /\ calls[2].articles = 0 /\ calls[2].result.state = "ok"

\* C17: after any sequence of digest operations every row of the digests
\* table has content that is not empty.
C17_ContentNeverEmpty ==
  \A id \in DOMAIN digestTable : digestTable[id].content # ""

\* the entries of the controller that carry data
IsData(item) == item \in {DataItem, RawItem}

\* no data entry comes after a [DONE] marker in S
NoDataAfterDone(S) ==
  \A i, j \in 1..Len(S) : (i < j /\ S[i] = DoneItem) => ~IsData(S[j])

C19_ChunksSequential ==
  [][/\ Cardinality(pushCall'.inflight) <= 1
     /\ \A k \in 1..Len(pushCall'.sent) : pushCall'.sent[k] = k
     /\ (Len(pushCall'.sent) = Len(pushCall.sent) + 1 /\ Len(pushCall.sent) >= 1)
          => /\ pushCall.pc = "delaying"
             /\ pushCall.inflight = {}
             /\ Len(pushCall.results) = Len(pushCall.sent)
             /\ pushCall.results[Len(pushCall.sent)].chunk = Len(pushCall.sent)]_vars

\* the third chunk of a push is in flight
C19_Witness ==
  /\ pushCall.pc = "awaiting"
  /\ pushCall.sent = <<1, 2, 3>>
  /\ pushCall.inflight = {3}
  /\ Len(pushCall.results) = 2

\* C20: the result of a push has success = true exactly when the send of
\* every chunk succeeded, and its status and error are those of the last
\* chunk attempted.
C20_ResultAggregation ==
  pushCall.pc = "done" =>
    LET results == pushCall.results
        last == results[Len(results)]
    IN  /\ Len(results) = pushCall.n
        /\ pushCall.result.success = (\A i \in 1..Len(results) : results[i].success)
        /\ pushCall.result.status = last.status
        /\ pushCall.result.error = last.error

\* a push whose first chunk failed and whose last chunk succeeded has returned
C20_Witness ==
  /\ pushCall.pc = "done"
  /\ pushCall.n >= 2
  /\ ~pushCall.results[1].success
  /\ pushCall.results[pushCall.n].success
  /\ ~pushCall.result.success
  /\ pushCall.result.status = "200"

\* C21: in a multi-chunk push a failed chunk does not stop the dispatch:
\* when the push returns, every chunk 1..N has been attempted exactly once,
\* details holds the N outcomes in chunk order and chunks = N; while the
\* push runs, the requests already issued stay issued.
C21_FailedChunkDoesNotStop ==
  [][/\ (pushCall'.pc = "done") =>
          /\ pushCall'.sent = [k \in 1..pushCall'.n |-> k]
          /\ Len(pushCall'.result.details) = pushCall'.n
          /\ \A k \in 1..pushCall'.n : pushCall'.result.details[k].chunk = k
          /\ pushCall'.result.chunks = pushCall'.n
     /\ (pushCall.pc \in {"awaiting", "delaying"}) =>
          /\ Len(pushCall'.sent) >= Len(pushCall.sent)
          /\ SubSeq(pushCall'.sent, 1, Len(pushCall.sent)) = pushCall.sent]_vars

\* a push of three chunks has returned after its first chunk got a non-2xx
\* answer and its second a network error
C21_Witness ==
  /\ pushCall.pc = "done"
  /\ pushCall.n = 3
  /\ pushCall.result.details[1].status = "500"
  /\ pushCall.result.details[2].status = "ERR"
  /\ pushCall.result.details[3].success
  /\ pushCall.sent = <<1, 2, 3>>

\* the texts of S joined in order
RECURSIVE concat(_)
concat(S) ==
  IF S = <<>> THEN Text(0, {})
  ELSE LET head == concat(SubSeq(S, 1, Len(S) - 1))
           last == S[Len(S)]
       IN  Text(head.len + last.len, head.nl \cup {head.len + q : q \in last.nl})

\* C22: for every content and every chunk limit, the chunks the splitter
\* produces, joined in order, are the content: no character is dropped,
\* added or moved.
C22_ChunksRebuildContent ==
  splitCall.pc = "done" => concat(splitCall.chunks) = splitCall.content

\* the greatest element of a non-empty set of numbers
Greatest(S) == CHOOSE q \in S : \A r \in S : r <= q

\* the split point the claim describes: the last paragraph break within the
\* limit, else the last line break within the limit, else the limit
ClaimedSplitPoint(t, maxLen) ==
  LET paragraphs == {q \in t.nl : q + 1 \in t.nl /\ q <= maxLen}
      lines == {q \in t.nl : q <= maxLen}
  IN  IF paragraphs # {} THEN Greatest(paragraphs)
      ELSE IF lines # {} THEN Greatest(lines)
      ELSE maxLen

\* the same, with only the breaks at or after 30% of the limit counted
LateSplitPoint(t, maxLen) ==
  LET late(q) == q * 10 >= maxLen * 3 /\ q <= maxLen
      paragraphs == {q \in t.nl : q + 1 \in t.nl /\ late(q)}
      lines == {q \in t.nl : late(q)}
  IN  IF paragraphs # {} THEN Greatest(paragraphs)
      ELSE IF lines # {} THEN Greatest(lines)
      ELSE maxLen

\* an iteration of the loop of splitText that cuts the remaining text at
\* point(remaining, maxLen): the chunk it adds is the text before the point,
\* is not empty and not longer than maxLen, and what remains is shorter
CutsAt(point(_, _)) ==
  LET c == splitCall
      d == splitCall'
      chunk == d.chunks[Len(d.chunks)]
  IN  (c.pc = "loop" /\ d # c) =>
        /\ c.maxLen > MIN_PER_CHUNK
        /\ Len(d.chunks) = Len(c.chunks) + 1
        /\ chunk.len > 0
        /\ chunk.len <= c.maxLen
        /\ d.pc = "done" \/ (d.pc = "loop" /\ d.remaining.len < c.remaining.len)
        /\ IF c.remaining.len <= c.maxLen THEN chunk = c.remaining /\ d.pc = "done"
           ELSE chunk = substring(c.remaining, 0, point(c.remaining, c.maxLen))

\* C26 (as claimed): splitText with maxLen > 100 ends, every chunk is
\* non-empty and at most maxLen long, and each split point is the last
\* paragraph break within the limit, else the last line break, else maxLen.
C26_SplitAtLastBreak == [][CutsAt(ClaimedSplitPoint)]_vars

\* C26 (amended): splitText with maxLen > 100 ends, every chunk is non-empty
\* and at most maxLen long, and each split point is the last paragraph break
\* that lies between 30% of maxLen and maxLen, else the last line break in
\* that range, else maxLen.
C26_SplitAtLastLateBreak == [][CutsAt(LateSplitPoint)]_vars

\* a content has been cut at a paragraph break and then twice at the limit
C26_Witness ==
  /\ splitCall.pc = "done"
  /\ splitCall.split
  /\ Len(splitCall.chunks) = 4
  /\ splitCall.chunks[1].len = 1000
  /\ splitCall.chunks[2].len = splitCall.maxLen
  /\ splitCall.chunks[3].len = splitCall.maxLen

\* C23 (as claimed): in a multi-chunk POST push only the body of the first
\* chunk carries the title, and the (i/N) suffix is on the chunks 2..N and
\* on no other.
C23_SuffixBeyondFirst ==
  \A k \in 1..Len(pushCall.bodies) :
    /\ pushCall.bodies[k].title = (k = 1)
    /\ (pushCall.bodies[k].suffix # <<>>) = (k >= 2)
    /\ k >= 2 => pushCall.bodies[k].suffix = <<k, pushCall.n>>

\* C23 (amended): in a POST push only the body of the first chunk carries
\* the title; when the push has more than one chunk every chunk, the first
\* included, has the suffix (i/N) after the place of the title, and a push of
\* one chunk has no suffix.
C23_SuffixOnEveryChunk ==
  \A k \in 1..Len(pushCall.bodies) :
    /\ pushCall.bodies[k].title = (k = 1)
    /\ pushCall.bodies[k].suffix = IF pushCall.n > 1 THEN <<k, pushCall.n>> ELSE <<>>

\* the three chunks of a push have been sent
C23_Witness ==
  /\ pushCall.n = 3
  /\ Len(pushCall.bodies) = 3
  /\ pushCall.bodies[1].title
  /\ pushCall.bodies[3].suffix = <<3, 3>>

\* the length of a string returned by truncateByToken
SummaryLength(summary) == summary.kept + (IF summary.ellipsis THEN 3 ELSE 0)

\* C24: truncation is monotonic: when a is a prefix of b and the budget is
\* the same, truncateByToken(a) is not longer than truncateByToken(b).
C24_TruncationMonotonic ==
  [][SummaryLength(truncCall.summary) <= SummaryLength(truncCall'.summary)]_vars

\* a content that fits the budget has been extended into one that does not
C24_Witness ==
  /\ Len(truncCall.text) = 3
  /\ truncCall.summary.ellipsis
  /\ truncCall.summary.kept >= textLength(SubSeq(truncCall.text, 1, 2))
  /\ truncCall.summary.kept < textLength(truncCall.text)

\* C25: however the transport cuts the provider's stream into reads, the
\* content callAIForDigest rebuilds is the content deltas the provider sent,
\* joined in order.
C25_ReassemblyIndependentOfReads ==
  streamCall.pc = "returned" => streamCall.content = Deltas

\* task n has a row whose last_error is not NULL in table T
HasError(T, n) == HasRow(T, n) /\ T[n].last_error # NullText

\* the step sets the last_error of task n, which was not NULL, to NULL
ErrorCleared(n) ==
  HasError(tasks, n) /\ HasRow(tasks', n) /\ tasks'[n].last_error = NullText

\* C27 (as claimed): a last_error that is not NULL is cleared only by the
\* successful completion of a run of that task; the start of a run, a run in
\* flight and a failed run never set it to NULL.
C27_ErrorClearedOnlyBySuccess ==
  [][\A n \in TaskIds :
       ErrorCleared(n) => (lastOp'.op = "runEnd" /\ lastOp'.ok /\ lastOp'.id = n)]_vars

\* C27 (amended): a last_error that is not NULL is cleared only by the start
\* of a run of that task or by the successful completion of one; a run that
\* fails leaves the task with a last_error that is not NULL.
C27_ErrorClearedByStartOrSuccess ==
  [][\A n \in TaskIds :
       /\ ErrorCleared(n) =>
            /\ lastOp'.id = n
            /\ lastOp'.op = "runStart" \/ (lastOp'.op = "runEnd" /\ lastOp'.ok)
       /\ (lastOp' # lastOp /\ lastOp'.op = "runEnd" /\ ~lastOp'.ok /\ lastOp'.id = n
             /\ HasRow(tasks', n)) => HasError(tasks', n)]_vars

\* a run of the task has just failed while another run of it is in flight
C27_Witness ==
  /\ lastOp.op = "runEnd" /\ ~lastOp.ok
  /\ HasError(tasks, lastOp.id)
  /\ \E i \in 1..Len(runs) : runs[i].task.id = lastOp.id

\* C28: the TTL sweep never removes a job that is pending or generating:
\* every job it deletes is completed or in error.
C28_SweepSparesRunningJobs ==
  [][\A j \in DOMAIN generationJobs :
       j \notin DOMAIN generationJobs' => generationJobs[j].status \in {"completed", "error"}]_vars

\* digest d is a row of the digests table, under its id
Stored(d) ==
  /\ d.id # Null
  /\ d.id \in DOMAIN digestTable
  /\ digestTable[d.id].content = d.content
  /\ digestTable[d.id].article_count = d.articleCount

\* the digests that generate has returned and the digests of completed jobs
ReturnedDigests ==
  {calls[i].result.digest : i \in {k \in 1..Len(calls) : calls[k].result.state = "ok"}}
    \cup {generationJobs[j].digest :
            j \in {k \in DOMAIN generationJobs : generationJobs[k].status = "completed"}}

\* C29 (as claimed): every digest returned by a successful generate, the
\* zero-article placeholder included, has been persisted: it has an id that
\* is not null and the store holds it under that id; so has every digest of
\* a completed job.
C29_ReturnedDigestStored ==
  \A d \in ReturnedDigests : Stored(d)

\* C29 (amended): every digest that a successful generate returns for a
\* window with at least one article has been persisted under its id, which
\* is not null; the zero-article placeholder has id null and is no row of
\* the store. The same holds of the digest of a completed job.
C29_ReturnedDigestStoredUnlessPlaceholder ==
  \A d \in ReturnedDigests :
    IF d.articleCount = 0
      THEN d.id = Null /\ \A id \in DOMAIN digestTable : digestTable[id].article_count # 0
      ELSE Stored(d)

\* a job has completed with a stored digest and a direct call has returned
\* the placeholder
C29_Witness ==
  /\ \E j \in DOMAIN generationJobs :
       generationJobs[j].status = "completed" /\ generationJobs[j].digest.id # Null
  /\ \E i \in 1..Len(calls) :
       /\ calls[i].caller = "direct"
       /\ calls[i].result.state = "ok"
       /\ calls[i].result.digest.id = Null

\* a poll of the generation has observed completed or error
Settled(c) == c.job.status # "none" /\ ~c.gen.isGenerating

\* C30: once a poll has observed completed or error, polling is off and no
\* later poll answer changes the generation state; the digest of the
\* completed job is added to the digest list once, also when polls overlap.
C30_PollingSettlesOnce ==
  [][/\ Settled(client) => (client'.gen = client.gen /\ ~client'.interval)
     /\ client'.digests <= 1
     /\ client'.gen.status = "completed" => client'.digests = 1]_vars

====
